---------------------------- MODULE Spec2Model ----------------------------
(***************************************************************************)
(* OpenSteer obstacle avoidance (src/opensteer/src/Obstacle.cpp).          *)
(*                                                                         *)
(* The C++ code computes in `float'.  Here a scalar is an exact rational   *)
(* <<numerator, denominator>> in lowest terms (denominator > 0), a Vec3 is *)
(* a triple of scalars.  The vehicles and obstacles enumerated below sit   *)
(* on a Pythagorean lattice (3-4-5 triangles), so every square root taken  *)
(* on the way to an intersecting result is the exact root of a perfect     *)
(* square (the property GeometryExact states this).                        *)
(***************************************************************************)
EXTENDS Integers, Sequences, FiniteSets

(***************************************************************************)
(* float arithmetic                                                        *)
(***************************************************************************)
Abs(n) == IF n < 0 THEN -n ELSE n

RECURSIVE GCD(_, _)
GCD(a, b) == IF b = 0 THEN a ELSE GCD(b, a % b)

\* the scalar n/d, d > 0, in lowest terms
Reduce(n, d, g) == <<n \div g, d \div g>>
Rat(n, d) == Reduce(n, d, GCD(Abs(n), d))

F(n) == <<n, 1>>

Zero == F(0)
One == F(1)

\* (sums and products of whole numbers skip the reduction to lowest terms)
Add(a, b) ==
    IF a[2] = 1 /\ b[2] = 1 THEN <<a[1] + b[1], 1>>
    ELSE Rat(a[1] * b[2] + b[1] * a[2], a[2] * b[2])
Sub(a, b) ==
    IF a[2] = 1 /\ b[2] = 1 THEN <<a[1] - b[1], 1>>
    ELSE Rat(a[1] * b[2] - b[1] * a[2], a[2] * b[2])
Mul(a, b) ==
    IF a[2] = 1 /\ b[2] = 1 THEN <<a[1] * b[1], 1>>
    ELSE Rat(a[1] * b[1], a[2] * b[2])
Neg(a) == <<-a[1], a[2]>>

\* a / b for b # 0 (every division of the code is guarded by a test of its divisor)
Div(a, b) ==
    IF b[1] > 0 THEN Rat(a[1] * b[2], a[2] * b[1])
    ELSE Rat(-(a[1] * b[2]), a[2] * (-b[1]))

Lt(a, b) == a[1] * b[2] < b[1] * a[2]
Gt(a, b) == Lt(b, a)
Le(a, b) == ~Lt(b, a)
Ge(a, b) == ~Lt(a, b)

square(x) == Mul(x, x)

\* the largest k with k*k <= m
Isqrt(m) == CHOOSE k \in 0..m : k * k <= m /\ (k + 1) * (k + 1) > m

\* sqrtXXX: the square root, exact whenever x is the square of a rational
\* (otherwise rounded down to a multiple of 1/denominator)
sqrtXXX(x) == Rat(Isqrt(x[1] * x[2]), x[2])

IsSquare(x) == square(sqrtXXX(x)) = x

(***************************************************************************)
(* Vec3                                                                    *)
(***************************************************************************)
V(x, y, z) == <<F(x), F(y), F(z)>>

Vec3zero == V(0, 0, 0)
Vec3forward == V(0, 0, 1)

VAdd(a, b) == <<Add(a[1], b[1]), Add(a[2], b[2]), Add(a[3], b[3])>>
VSub(a, b) == <<Sub(a[1], b[1]), Sub(a[2], b[2]), Sub(a[3], b[3])>>
VScale(a, s) == <<Mul(a[1], s), Mul(a[2], s), Mul(a[3], s)>>
VDiv(a, s) == <<Div(a[1], s), Div(a[2], s), Div(a[3], s)>>
VNeg(a) == <<Neg(a[1]), Neg(a[2]), Neg(a[3])>>

dot(a, b) == Add(Add(Mul(a[1], b[1]), Mul(a[2], b[2])), Mul(a[3], b[3]))
lengthSquared(a) == dot(a, a)
length(a) == sqrtXXX(lengthSquared(a))

\* Vec3::normalize: the vector over its length; a zero-length vector is
\* returned as it is (no divide)
divideByLength(a, len) == IF Gt(len, Zero) THEN VDiv(a, len) ELSE a
normalize(a) == divideByLength(a, length(a))

\* Vec3::parallelComponent / perpendicularComponent with respect to a unit basis
parallelComponent(a, unitBasis) == VScale(unitBasis, dot(a, unitBasis))
perpendicularComponent(a, unitBasis) == VSub(a, parallelComponent(a, unitBasis))

(***************************************************************************)
(* LocalSpace: an orthonormal frame (side, up, forward) at a position.     *)
(* Vehicles and rectangles are local spaces.                               *)
(***************************************************************************)
localizeDirection(ls, globalDirection) ==
    <<dot(globalDirection, ls.side), dot(globalDirection, ls.up),
      dot(globalDirection, ls.forward)>>

localizePosition(ls, globalPosition) ==
    localizeDirection(ls, VSub(globalPosition, ls.position))

globalizeDirection(ls, localDirection) ==
    VAdd(VAdd(VScale(ls.side, localDirection[1]), VScale(ls.up, localDirection[2])),
         VScale(ls.forward, localDirection[3]))

globalizePosition(ls, localPosition) ==
    VAdd(ls.position, globalizeDirection(ls, localPosition))

(***************************************************************************)
(* Obstacles.  An obstacle is a record; `ref' is its identity, the value   *)
(* of the C++ `this' pointer: [id |-> i, face |-> 0] for the caller's i-th *)
(* object, [id |-> i, face |-> k] for the k-th face rectangle that a       *)
(* query of box i builds on its stack.                                     *)
(***************************************************************************)
SeenFromStates == {"outside", "inside", "both"}

\* Obstacle::Obstacle (void): the seenFrom state of an obstacle built without one
DefaultSeenFrom == "outside"

Ref(i, k) == [id |-> i, face |-> k]

SphericalObstacle(i, r, c, sf) ==
    [kind |-> "sphere", ref |-> Ref(i, 0), radius |-> r, center |-> c, seenFrom |-> sf]

RectangleObstacle(rf, w, h, s, u, f, p, sf) ==
    [kind |-> "rectangle", ref |-> rf, width |-> w, height |-> h,
     side |-> s, up |-> u, forward |-> f, position |-> p, seenFrom |-> sf]

BoxObstacle(i, w, h, d, s, u, f, p, sf) ==
    [kind |-> "box", ref |-> Ref(i, 0), width |-> w, height |-> h, depth |-> d,
     side |-> s, up |-> u, forward |-> f, position |-> p, seenFrom |-> sf]

(***************************************************************************)
(* PathIntersection                                                        *)
(***************************************************************************)
PathIntersection(i, d, sp, sn, sh, o) ==
    [intersect |-> i, distance |-> d, surfacePoint |-> sp, surfaceNormal |-> sn,
     steerHint |-> sh, obstacle |-> o]

\* determine steering once path intersections have been found
steerToAvoidIfNeeded(pi, vehicle, minTimeToCollision) ==
    LET minDistanceToCollision == Mul(minTimeToCollision, vehicle.speed)
    IN  IF pi.intersect /\ Lt(pi.distance, minDistanceToCollision)
        THEN LET lateral == perpendicularComponent(pi.steerHint, vehicle.forward)
             IN  VScale(normalize(lateral), vehicle.maxForce)
        ELSE Vec3zero

(***************************************************************************)
(* SphericalObstacle                                                       *)
(***************************************************************************)
\* the line-sphere intersection parameters in the vehicle's local space:
\* the discriminant d and, when it is not negative, the roots p and q
sphereRoots(lc, r) ==
    LET b == Mul(F(-2), lc[3])
        c == Sub(Add(Add(square(lc[1]), square(lc[2])), square(lc[3])), square(r))
        d == Sub(Mul(b, b), Mul(F(4), c))
        s == sqrtXXX(d)
    IN  [d |-> d,
         p |-> IF Lt(d, Zero) THEN Zero ELSE Div(Add(Neg(b), s), F(2)),
         q |-> IF Lt(d, Zero) THEN Zero ELSE Div(Sub(Neg(b), s), F(2))]

\* a variant of sphereDistance that takes the farther of two positive roots
sphereDistanceFarthest(p, q, seenFrom) ==
    IF Gt(p, Zero) /\ Gt(q, Zero)
    THEN (IF Lt(p, q) THEN q ELSE p)
    ELSE (IF seenFrom = "outside"
          THEN Zero
          ELSE (IF Gt(p, Zero) THEN p ELSE q))

\* the distance of an intersecting path (at least one root is not behind)
sphereDistance(p, q, seenFrom) ==
    IF Gt(p, Zero) /\ Gt(q, Zero)
    THEN (IF Lt(p, q) THEN p ELSE q)
    ELSE (IF seenFrom = "outside"
          THEN Zero
          ELSE (IF Gt(p, Zero) THEN p ELSE q))

\* the result of a path that intersects at `distance'
sphereHit(o, vehicle, distance) ==
    LET surfacePoint == VAdd(vehicle.position, VScale(vehicle.forward, distance))
        surfaceNormal == normalize(VSub(surfacePoint, o.center))
    IN  PathIntersection(TRUE, distance, surfacePoint, surfaceNormal, surfaceNormal, o.ref)

\* the two early returns, then the result
sphereTests(o, vehicle, pi, roots) ==
    IF Lt(roots.d, Zero) THEN [pi EXCEPT !.intersect = FALSE]
    ELSE IF Lt(roots.p, Zero) /\ Lt(roots.q, Zero) THEN [pi EXCEPT !.intersect = FALSE]
    ELSE sphereHit(o, vehicle, sphereDistance(roots.p, roots.q, o.seenFrom))

SphericalObstacle_findIntersectionWithVehiclePath(o, vehicle, pi) ==
    sphereTests(o, vehicle, pi,
                sphereRoots(localizePosition(vehicle, o.center), Add(o.radius, vehicle.radius)))

(***************************************************************************)
(* RectangleObstacle                                                       *)
(***************************************************************************)
\* a variant of outsideRectangle that also rejects the boundary itself
outsideOrOnRectangle(ix, iy, w, h) ==
    Ge(ix, w) \/ Le(ix, Neg(w)) \/ Ge(iy, h) \/ Le(iy, Neg(h))

\* the plane intersection (ix, iy) lies outside the rectangle widened to w, h
outsideRectangle(ix, iy, w, h) ==
    Gt(ix, w) \/ Lt(ix, Neg(w)) \/ Gt(iy, h) \/ Lt(iy, Neg(h))

\* the result of a path that crosses the rectangle at planeIntersection
rectangleHit(o, lp, planeIntersection, opposingNormal) ==
    PathIntersection(TRUE, length(VSub(lp, planeIntersection)),
                     globalizePosition(o, planeIntersection),
                     opposingNormal,
                     VAdd(opposingNormal, globalizeDirection(o, normalize(planeIntersection))),
                     o.ref)

\* the test of the plane intersection against the rectangle, then the result
rectangleCrossing(o, pi, lp, ix, iy, w, h) ==
    IF outsideRectangle(ix, iy, w, h) THEN [pi EXCEPT !.intersect = FALSE]
    ELSE rectangleHit(o, lp, <<ix, iy, Zero>>,
                      VScale(o.forward, IF Gt(lp[3], Zero) THEN F(1) ELSE F(-1)))

\* the early returns on the path's direction and side, then the crossing
rectangleTests(o, vehicle, pi, lp, ld) ==
    IF dot(ld, Vec3forward) = Zero THEN [pi EXCEPT !.intersect = FALSE]
    ELSE IF Gt(lp[3], Zero) /\ Gt(ld[3], Zero) THEN [pi EXCEPT !.intersect = FALSE]
    ELSE IF Lt(lp[3], Zero) /\ Lt(ld[3], Zero) THEN [pi EXCEPT !.intersect = FALSE]
    ELSE IF o.seenFrom = "outside" /\ Lt(lp[3], Zero) THEN [pi EXCEPT !.intersect = FALSE]
    ELSE IF o.seenFrom = "inside" /\ Gt(lp[3], Zero) THEN [pi EXCEPT !.intersect = FALSE]
    ELSE rectangleCrossing(o, pi, lp,
                           Sub(lp[1], Div(Mul(ld[1], lp[3]), ld[3])),
                           Sub(lp[2], Div(Mul(ld[2], lp[3]), ld[3])),
                           Add(vehicle.radius, Mul(o.width, <<1, 2>>)),
                           Add(vehicle.radius, Mul(o.height, <<1, 2>>)))

RectangleObstacle_findIntersectionWithVehiclePath(o, vehicle, pi) ==
    rectangleTests(o, vehicle, pi, localizePosition(o, vehicle.position),
                   localizeDirection(o, vehicle.forward))

(***************************************************************************)
(* BoxObstacle: the six face rectangles a query builds (r1 .. r6)          *)
(***************************************************************************)
\* a variant of boxFaces whose back face sits where the front face is
boxFacesBackMisplaced(o) ==
    LET hw == VScale(o.side, Mul(<<1, 2>>, o.width))
        hh == VScale(o.up, Mul(<<1, 2>>, o.height))
        hd == VScale(o.forward, Mul(<<1, 2>>, o.depth))
        face(k) == Ref(o.ref.id, k)
    IN  << RectangleObstacle(face(1), o.width, o.height, o.side, o.up, o.forward,
                             VAdd(o.position, hd), DefaultSeenFrom),
           RectangleObstacle(face(2), o.width, o.height, VNeg(o.side), o.up, VNeg(o.forward),
                             VAdd(o.position, hd), DefaultSeenFrom),
           RectangleObstacle(face(3), o.depth, o.height, VNeg(o.forward), o.up, o.side,
                             VAdd(o.position, hw), DefaultSeenFrom),
           RectangleObstacle(face(4), o.depth, o.height, o.forward, o.up, VNeg(o.side),
                             VSub(o.position, hw), DefaultSeenFrom),
           RectangleObstacle(face(5), o.width, o.depth, o.side, VNeg(o.forward), o.up,
                             VAdd(o.position, hh), DefaultSeenFrom),
           RectangleObstacle(face(6), o.width, o.depth, VNeg(o.side), VNeg(o.forward),
                             VNeg(o.up), VSub(o.position, hh), DefaultSeenFrom) >>

boxFaces(o) ==
    LET w == o.width
        h == o.height
        d == o.depth
        s == o.side
        u == o.up
        f == o.forward
        p == o.position
        hw == VScale(s, Mul(<<1, 2>>, o.width))
        hh == VScale(u, Mul(<<1, 2>>, o.height))
        hd == VScale(f, Mul(<<1, 2>>, o.depth))
        face(k) == Ref(o.ref.id, k)
    IN  << RectangleObstacle(face(1), w, h, s, u, f, VAdd(p, hd), DefaultSeenFrom),
           RectangleObstacle(face(2), w, h, VNeg(s), u, VNeg(f), VSub(p, hd), DefaultSeenFrom),
           RectangleObstacle(face(3), d, h, VNeg(f), u, s, VAdd(p, hw), DefaultSeenFrom),
           RectangleObstacle(face(4), d, h, f, u, VNeg(s), VSub(p, hw), DefaultSeenFrom),
           RectangleObstacle(face(5), w, d, s, VNeg(f), u, VAdd(p, hh), DefaultSeenFrom),
           RectangleObstacle(face(6), w, d, VNeg(s), VNeg(f), VNeg(u), VSub(p, hh), DefaultSeenFrom) >>

(***************************************************************************)
(* Obstacle::firstPathIntersectionWithObstacleGroup.  The state of the     *)
(* scan is the pair of PathIntersection objects [nearest, next].           *)
(***************************************************************************)
\* a variant of scanStart that leaves the flags as it finds them
scanStartNoReset(nearest, next) ==
    [nearest |-> nearest, next |-> next]

\* a variant of selectNearest in which an equal distance replaces too
selectNearestOrEqual(nearest, next) ==
    LET firstFound == ~nearest.intersect
        nearestFound == next.intersect /\ Le(next.distance, nearest.distance)
    IN  [nearest |-> IF firstFound \/ nearestFound THEN next ELSE nearest,
         next |-> next]

\* before the loop: both objects are marked "no intersection"
scanStart(nearest, next) ==
    [nearest |-> [nearest EXCEPT !.intersect = FALSE],
     next |-> [next EXCEPT !.intersect = FALSE]]

\* the loop body after obstacle o has written its result into next: next
\* becomes nearest if it is the first found or the nearest found so far
selectNearest(nearest, next) ==
    LET firstFound == ~nearest.intersect
        nearestFound == next.intersect /\ Lt(next.distance, nearest.distance)
    IN  [nearest |-> IF firstFound \/ nearestFound THEN next ELSE nearest,
         next |-> next]

\* BoxObstacle: the scan of the group of the six faces, all of them
\* RectangleObstacles; `uninit' is what the local PathIntersection `next'
\* holds when it is declared
BoxObstacle_findIntersectionWithVehiclePath(o, vehicle, pi, uninit) ==
    LET faces == boxFaces(o)
        step(k, s) ==
            selectNearest(s.nearest,
                RectangleObstacle_findIntersectionWithVehiclePath(faces[k], vehicle, s.next))
    IN  step(6, step(5, step(4, step(3, step(2, step(1, scanStart(pi, uninit))))))).nearest

\* the virtual call (**o).findIntersectionWithVehiclePath (vehicle, pi)
findIntersectionWithVehiclePath(o, vehicle, pi, uninit) ==
    CASE o.kind = "sphere" -> SphericalObstacle_findIntersectionWithVehiclePath(o, vehicle, pi)
      [] o.kind = "rectangle" -> RectangleObstacle_findIntersectionWithVehiclePath(o, vehicle, pi)
      [] o.kind = "box" -> BoxObstacle_findIntersectionWithVehiclePath(o, vehicle, pi, uninit)

RECURSIVE scanFrom(_, _, _, _, _)
\* the loop over the group, from the i-th obstacle on
scanFrom(vehicle, obstacles, i, s, uninit) ==
    IF i > Len(obstacles) THEN s
    ELSE scanFrom(vehicle, obstacles, i + 1,
                  selectNearest(s.nearest,
                      findIntersectionWithVehiclePath(obstacles[i], vehicle, s.next, uninit)),
                  uninit)

firstPathIntersectionWithObstacleGroup(vehicle, obstacles, nearest, next, uninit) ==
    scanFrom(vehicle, obstacles, 1, scanStart(nearest, next), uninit)

\* what a steerToAvoid* call works on and returns
steerResult(pi, vehicle, minTimeToCollision) ==
    [pi |-> pi, force |-> steerToAvoidIfNeeded(pi, vehicle, minTimeToCollision)]

\* compute steering for a vehicle to avoid this obstacle, if needed
steerToAvoid(o, vehicle, minTimeToCollision, uninit) ==
    steerResult(findIntersectionWithVehiclePath(o, vehicle, uninit, uninit),
                vehicle, minTimeToCollision)

\* apply steerToAvoid to the nearest obstacle in an ObstacleGroup
steerToAvoidObstacles(vehicle, minTimeToCollision, obstacles, uninit) ==
    steerResult(firstPathIntersectionWithObstacleGroup(vehicle, obstacles, uninit, uninit, uninit).nearest,
                vehicle, minTimeToCollision)

\* the stack objects of a query of o whose lifetime ends when it returns
localsOf(o) == IF o.kind = "box" THEN {Ref(o.ref.id, k) : k \in 1..6} ELSE {}

(***************************************************************************)
(* The vehicles and obstacles of the model                                 *)
(***************************************************************************)
\* the longest ObstacleGroup enumerated
MaxGroupLen == 2
\* minTimeToCollision ranges over 0 .. MaxTime
MaxTime == 1

\* AbstractVehicle: a local space with a speed, a radius and a maximum force
Vehicle(p, s, u, f, sp, r) ==
    [position |-> p, side |-> s, up |-> u, forward |-> f,
     speed |-> F(sp), radius |-> F(r), maxForce |-> F(2)]

\* heading +Z, -Z, +X, -Y, and tilted in the YZ plane (a 3-4-5 heading)
AlongZ(p, sp, r) == Vehicle(p, V(1, 0, 0), V(0, 1, 0), V(0, 0, 1), sp, r)
AgainstZ(p, sp, r) == Vehicle(p, V(-1, 0, 0), V(0, 1, 0), V(0, 0, -1), sp, r)
AlongX(p, sp, r) == Vehicle(p, V(0, 0, -1), V(0, 1, 0), V(1, 0, 0), sp, r)
AgainstY(p, sp, r) == Vehicle(p, V(1, 0, 0), V(0, 0, 1), V(0, -1, 0), sp, r)
Tilted(p, sp, r) ==
    Vehicle(p, V(1, 0, 0), <<Zero, <<4, 5>>, <<-3, 5>>>>, <<Zero, <<3, 5>>, <<4, 5>>>>, sp, r)

Vehicles ==
    UNION { { AlongZ(V(0, 0, 0), 5, r), AlongZ(V(4, 0, 0), 5, r),
              AlongZ(V(0, 0, 10), 0, r), AgainstZ(V(0, 0, 10), 5, r),
              AlongZ(V(0, 0, 15), 5, r), AgainstZ(V(0, 0, 15), 5, r),
              AlongZ(V(0, 0, 5), 5, r), AlongZ(V(0, 0, 8), 0, r),
              AlongZ(V(-3, 0, 14), 0, r),
              AlongX(V(-9, 0, 10), 5, r), AgainstY(V(0, 9, 10), 5, r),
              Tilted(V(0, 0, 0), 5, r), Tilted(V(0, -6, 2), 5, r) } : r \in {0, 1} }

\* the obstacles a caller owns; the i-th has ref.id = i
World ==
    << SphericalObstacle(1, F(1), V(0, 0, 10), "outside"),
       SphericalObstacle(2, F(4), V(0, 0, 10), "outside"),
       SphericalObstacle(3, F(4), V(0, 0, 10), "inside"),
       SphericalObstacle(4, F(4), V(0, 0, 10), "both"),
       RectangleObstacle(Ref(5, 0), F(6), F(8), V(-1, 0, 0), V(0, 1, 0), V(0, 0, -1),
                         V(0, 0, 5), "outside"),
       RectangleObstacle(Ref(6, 0), F(6), F(8), V(-1, 0, 0), V(0, 1, 0), V(0, 0, -1),
                         V(0, 0, 5), "inside"),
       RectangleObstacle(Ref(7, 0), F(6), F(8), V(-1, 0, 0), V(0, 1, 0), V(0, 0, -1),
                         V(0, 0, 5), "both"),
       RectangleObstacle(Ref(8, 0), F(6), F(8), V(1, 0, 0), V(0, 1, 0), V(0, 0, 1),
                         V(0, 0, 5), "outside"),
       BoxObstacle(9, F(6), F(8), F(6), V(1, 0, 0), V(0, 1, 0), V(0, 0, 1),
                   V(0, 0, 8), "outside") >>

\* the obstacles that ObstacleGroups of two and more are drawn from
GroupPool == {1, 5, 9}
GroupVehicles == {AlongZ(V(0, 0, 0), 5, 0), AgainstZ(V(0, 0, 15), 5, 0)}

RECURSIVE SeqsOver(_, _)
SeqsOver(S, n) ==
    IF n = 0 THEN {<<>>}
    ELSE LET shorter == SeqsOver(S, n - 1)
         IN  shorter \cup {Append(g, World[i]) : g \in {h \in shorter : Len(h) = n - 1}, i \in S}

SingleScenes ==
    {[vehicle |-> v, obstacles |-> <<World[i]>>] : v \in Vehicles, i \in 1..Len(World)}
GroupScenes ==
    {[vehicle |-> v, obstacles |-> g] : v \in GroupVehicles, g \in SeqsOver(GroupPool, MaxGroupLen)}

Times == {F(t) : t \in 0..MaxTime}

\* what a PathIntersection holds before a query writes it: nothing, or the
\* result of an earlier query of some other obstacle
NoIntersection == PathIntersection(FALSE, Zero, Vec3zero, Vec3zero, Vec3zero, Ref(0, 0))
StaleHit == PathIntersection(TRUE, Zero, V(1, 1, 1), V(0, 1, 0), V(0, 1, 0), Ref(0, 0))
Stale == {NoIntersection, StaleHit}

(***************************************************************************)
(* The state: a caller's vehicle, ObstacleGroup and PathIntersection       *)
(* objects, the stack objects whose lifetime has ended, and the last call  *)
(* with what it returned.                                                  *)
(***************************************************************************)
VARIABLES vehicle, obstacles, pi, nearest, next, destroyed, ret

vars == <<vehicle, obstacles, pi, nearest, next, destroyed, ret>>

Call(op, i, t, p, f) == [op |-> op, arg |-> i, t |-> t, pi |-> p, force |-> f]

\* obstacles[i].findIntersectionWithVehiclePath (vehicle, pi), by dynamic type
SphereQuery(i) ==
    /\ obstacles[i].kind = "sphere"
    /\ pi' = SphericalObstacle_findIntersectionWithVehiclePath(obstacles[i], vehicle, pi)
    /\ ret' = Call("find", i, Zero, pi', Vec3zero)
    /\ UNCHANGED <<vehicle, obstacles, nearest, next, destroyed>>

RectangleQuery(i) ==
    /\ obstacles[i].kind = "rectangle"
    /\ pi' = RectangleObstacle_findIntersectionWithVehiclePath(obstacles[i], vehicle, pi)
    /\ ret' = Call("find", i, Zero, pi', Vec3zero)
    /\ UNCHANGED <<vehicle, obstacles, nearest, next, destroyed>>

BoxQuery(i) ==
    /\ obstacles[i].kind = "box"
    /\ \E uninit \in Stale :
          pi' = BoxObstacle_findIntersectionWithVehiclePath(obstacles[i], vehicle, pi, uninit)
    /\ destroyed' = destroyed \cup localsOf(obstacles[i])
    /\ ret' = Call("find", i, Zero, pi', Vec3zero)
    /\ UNCHANGED <<vehicle, obstacles, nearest, next>>

\* Obstacle::firstPathIntersectionWithObstacleGroup (vehicle, obstacles, nearest, next)
GroupReturns(r) ==
    /\ nearest' = r.nearest
    /\ next' = r.next
    /\ ret' = Call("group", 0, Zero, r.nearest, Vec3zero)

GroupQuery ==
    /\ \E uninit \in Stale :
          GroupReturns(firstPathIntersectionWithObstacleGroup(vehicle, obstacles, nearest, next, uninit))
    /\ destroyed' = destroyed \cup UNION {localsOf(obstacles[i]) : i \in 1..Len(obstacles)}
    /\ UNCHANGED <<vehicle, obstacles, pi>>

SteerReturns(op, i, t, r) == ret' = Call(op, i, t, r.pi, r.force)

\* nearest.steerToAvoidIfNeeded (vehicle, minTimeToCollision)
SteerToAvoidIfNeeded(t) ==
    /\ SteerReturns("steerToAvoidIfNeeded", 0, t, steerResult(nearest, vehicle, t))
    /\ UNCHANGED <<vehicle, obstacles, pi, nearest, next, destroyed>>

\* obstacles[i].steerToAvoid (vehicle, minTimeToCollision)
SteerToAvoid(i, t) ==
    /\ \E uninit \in Stale :
          SteerReturns("steerToAvoid", i, t, steerToAvoid(obstacles[i], vehicle, t, uninit))
    /\ destroyed' = destroyed \cup localsOf(obstacles[i])
    /\ UNCHANGED <<vehicle, obstacles, pi, nearest, next>>

\* Obstacle::steerToAvoidObstacles (vehicle, minTimeToCollision, obstacles)
SteerToAvoidObstacles(t) ==
    /\ \E uninit \in Stale :
          SteerReturns("steerToAvoidObstacles", 0, t,
                       steerToAvoidObstacles(vehicle, t, obstacles, uninit))
    /\ destroyed' = destroyed \cup UNION {localsOf(obstacles[i]) : i \in 1..Len(obstacles)}
    /\ UNCHANGED <<vehicle, obstacles, pi, nearest, next>>

\* the three kinds of caller the properties below are checked for: one that
\* queries single obstacles, one that scans groups (and queries their
\* members), one that asks for steering forces
QueryNext ==
    \/ \E i \in 1..Len(obstacles) : SphereQuery(i)
    \/ \E i \in 1..Len(obstacles) : RectangleQuery(i)
    \/ \E i \in 1..Len(obstacles) : BoxQuery(i)

GroupNext ==
    \/ QueryNext
    \/ GroupQuery

SteerNext ==
    \/ \E t \in Times : SteerToAvoidIfNeeded(t)
    \/ \E i \in 1..Len(obstacles), t \in Times : SteerToAvoid(i, t)
    \/ \E t \in Times : SteerToAvoidObstacles(t)

InitOn(scenes) ==
    /\ \E sc \in scenes : vehicle = sc.vehicle /\ obstacles = sc.obstacles
    /\ \E s \in Stale : pi = s /\ nearest = s /\ next = s
    /\ destroyed = {}
    /\ ret = Call("none", 0, Zero, NoIntersection, Vec3zero)

SpecQuery == InitOn(SingleScenes) /\ [][QueryNext]_vars
SpecGroup == InitOn(GroupScenes) /\ [][GroupNext]_vars
SpecSteer == InitOn(SingleScenes \cup GroupScenes) /\ [][SteerNext]_vars

(***************************************************************************)
(* Properties                                                              *)
(***************************************************************************)
\* the part of a PathIntersection that a caller may read: the flag and, when
\* it is set, the distance, the surface point and normal and the steer hint
Visible(x) ==
    IF x.intersect
    THEN <<TRUE, x.distance, x.surfacePoint, x.surfaceNormal, x.steerHint>>
    ELSE <<FALSE>>

\* a query run on PathIntersection objects that hold no earlier result
FreshFind(o) == findIntersectionWithVehiclePath(o, vehicle, NoIntersection, NoIntersection)
FreshScan(group) ==
    firstPathIntersectionWithObstacleGroup(vehicle, group, NoIntersection, NoIntersection,
                                           NoIntersection).nearest

LastQueried == obstacles[ret.arg]
SteerCalls == {"steerToAvoidIfNeeded", "steerToAvoid", "steerToAvoidObstacles"}

\* every square root taken for an intersecting result was exact: normals and
\* forces have squared length 0 or 1 (times maxForce squared)
GeometryExact ==
    /\ ret.pi.intersect => lengthSquared(ret.pi.surfaceNormal) \in {Zero, One}
    /\ lengthSquared(ret.force) \in {Zero, square(vehicle.maxForce)}

Permutations(n) == {f \in [1..n -> 1..n] : \A i, j \in 1..n : i # j => f[i] # f[j]}
Permuted(group, f) == [i \in 1..Len(group) |-> group[f[i]]]

\* C1: after firstPathIntersectionWithObstacleGroup, nearest.intersect is false
\* exactly when no obstacle of the group intersects the path; otherwise nearest
\* is the full result of the first obstacle, in group order, whose distance is
\* the minimum over the intersecting obstacles, and every permutation of the
\* group selects the same distance.
C1_NearestIsFirstMinimum ==
    ret.op = "group" =>
        LET n == Len(obstacles)
            R == [i \in 1..n |-> FreshFind(obstacles[i])]
            hits == {i \in 1..n : R[i].intersect}
        IN  /\ nearest.intersect = (hits # {})
            /\ hits # {} =>
                 \E k \in hits :
                    /\ \A j \in hits : Le(R[k].distance, R[j].distance)
                    /\ \A j \in hits : j < k => Lt(R[k].distance, R[j].distance)
                    /\ nearest = R[k]
            /\ \A f \in Permutations(n) :
                 LET other == FreshScan(Permuted(obstacles, f))
                 IN  /\ other.intersect = nearest.intersect
                     /\ nearest.intersect => other.distance = nearest.distance

\* a scan of two different obstacles that intersect at the same distance
C1_Witness ==
    /\ ret.op = "group"
    /\ Len(obstacles) = 2
    /\ obstacles[1].ref # obstacles[2].ref
    /\ FreshFind(obstacles[1]).intersect
    /\ FreshFind(obstacles[2]).intersect
    /\ FreshFind(obstacles[1]).distance = FreshFind(obstacles[2]).distance
    /\ nearest.obstacle.id = obstacles[1].ref.id

\* C2: steerToAvoidIfNeeded (and so steerToAvoid and steerToAvoidObstacles)
\* returns the zero vector whenever the intersection record has
\* intersect = false, whenever distance >= minTimeToCollision * speed, and in
\* particular for every query of a vehicle whose speed is 0.
C2_ZeroForceWhenNoThreat ==
    ret.op \in SteerCalls =>
        /\ ~ret.pi.intersect => ret.force = Vec3zero
        /\ Ge(ret.pi.distance, Mul(ret.t, vehicle.speed)) => ret.force = Vec3zero
        /\ vehicle.speed = Zero => ret.force = Vec3zero

\* the two parts of C2 that do not rest on the distance being non-negative
C2_ZeroForceBeyondHorizon ==
    ret.op \in SteerCalls =>
        /\ ~ret.pi.intersect => ret.force = Vec3zero
        /\ Ge(ret.pi.distance, Mul(ret.t, vehicle.speed)) => ret.force = Vec3zero

\* C3: whenever intersect = true and distance < minTimeToCollision * speed,
\* the force returned for an obstacle's intersection is lateral (no component
\* along the vehicle's forward) and has the length maxForce.  (Stated for the
\* steer hints of non-zero length, the normals and sums the claim names.)
C3_LateralForceOfMaxLength ==
    (/\ ret.op \in {"steerToAvoid", "steerToAvoidObstacles"}
     /\ ret.pi.intersect
     /\ ret.pi.steerHint # Vec3zero
     /\ Lt(ret.pi.distance, Mul(ret.t, vehicle.speed)))
    => /\ dot(ret.force, vehicle.forward) = Zero
       /\ lengthSquared(ret.force) = square(vehicle.maxForce)

\* C4: the sphere query reports no intersection when the discriminant is
\* negative or both roots are negative; with both roots positive the distance
\* is the smaller root; with roots on both sides of zero it is 0 for a sphere
\* seen from outside and the positive root otherwise; the vehicle at the
\* origin heading +Z with radius 0 meets the sphere of radius 1 at (0,0,10) at
\* distance 9 with surface normal (0,0,-1).
C4_SphereDistance ==
    (ret.op = "find" /\ LastQueried.kind = "sphere") =>
        LET o == LastQueried
            roots == sphereRoots(localizePosition(vehicle, o.center),
                                 Add(o.radius, vehicle.radius))
            p == roots.p
            q == roots.q
        IN  /\ Lt(roots.d, Zero) => ~pi.intersect
            /\ (Ge(roots.d, Zero) /\ Lt(p, Zero) /\ Lt(q, Zero)) => ~pi.intersect
            /\ (Ge(roots.d, Zero) /\ Gt(p, Zero) /\ Gt(q, Zero)) =>
                 /\ pi.intersect
                 /\ pi.distance \in {p, q}
                 /\ Le(pi.distance, p) /\ Le(pi.distance, q)
            /\ (Ge(roots.d, Zero) /\ Gt(p, Zero) /\ Lt(q, Zero)) =>
                 /\ pi.intersect
                 /\ pi.distance = IF o.seenFrom = "outside" THEN Zero ELSE p
            /\ (Ge(roots.d, Zero) /\ Lt(p, Zero) /\ Gt(q, Zero)) =>
                 /\ pi.intersect
                 /\ pi.distance = IF o.seenFrom = "outside" THEN Zero ELSE q
            /\ (/\ vehicle.position = V(0, 0, 0) /\ vehicle.forward = V(0, 0, 1)
                /\ vehicle.radius = Zero
                /\ o.center = V(0, 0, 10) /\ o.radius = One) =>
                 /\ pi.intersect
                 /\ pi.distance = F(9)
                 /\ pi.surfaceNormal = V(0, 0, -1)

\* a sphere ahead of the vehicle crossed at two points in front of it
C4_Witness ==
    /\ ret.op = "find"
    /\ LastQueried.kind = "sphere"
    /\ pi.intersect
    /\ pi.distance = F(9)
    /\ vehicle.radius = Zero

\* C5: the rectangle query reports an intersection if and only if none of the
\* rejections holds: (1) ld.z = 0; (2) lp.z and ld.z both > 0 or both < 0;
\* (3) seenFrom = outside and lp.z < 0, or seenFrom = inside and lp.z > 0;
\* (4) |ix| > radius + width/2 or |iy| > radius + height/2.  A crossing point
\* exactly on the widened boundary is an intersection.
C5_RectangleRejections ==
    (ret.op = "find" /\ LastQueried.kind = "rectangle") =>
        LET o == LastQueried
            lp == localizePosition(o, vehicle.position)
            ld == localizeDirection(o, vehicle.forward)
            ix == Sub(lp[1], Div(Mul(ld[1], lp[3]), ld[3]))
            iy == Sub(lp[2], Div(Mul(ld[2], lp[3]), ld[3]))
            absx == IF Lt(ix, Zero) THEN Neg(ix) ELSE ix
            absy == IF Lt(iy, Zero) THEN Neg(iy) ELSE iy
            halfWidth == Add(vehicle.radius, Div(o.width, F(2)))
            halfHeight == Add(vehicle.radius, Div(o.height, F(2)))
            parallel == ld[3] = Zero
            diverging == \/ Gt(lp[3], Zero) /\ Gt(ld[3], Zero)
                         \/ Lt(lp[3], Zero) /\ Lt(ld[3], Zero)
            unseen == \/ o.seenFrom = "outside" /\ Lt(lp[3], Zero)
                      \/ o.seenFrom = "inside" /\ Gt(lp[3], Zero)
            beyond == Gt(absx, halfWidth) \/ Gt(absy, halfHeight)
        IN  pi.intersect <=> ~(parallel \/ diverging \/ unseen \/ beyond)

\* a path that crosses the rectangle's plane exactly on the widened boundary
C5_Witness ==
    /\ ret.op = "find"
    /\ LastQueried.kind = "rectangle"
    /\ pi.intersect
    /\ LET lp == localizePosition(LastQueried, pi.surfacePoint)
       IN  lp[1] \in { Add(vehicle.radius, Div(LastQueried.width, F(2))),
                       Neg(Add(vehicle.radius, Div(LastQueried.width, F(2)))) }

\* C6: every intersection returned by a sphere, rectangle or box query has a
\* surfaceNormal of unit length.
C6_UnitSurfaceNormal ==
    (ret.op = "find" /\ pi.intersect) => lengthSquared(pi.surfaceNormal) = One

\* the six outward-facing faces of a box as C7 describes them: front and
\* back w x h at position +/- forward*depth/2, sides d x h at +/- side*width/2,
\* top and bottom w x d at +/- up*height/2, each with its normal pointing out
OutwardFace(o, k) ==
    LET halfW == VScale(o.side, Div(o.width, F(2)))
        halfH == VScale(o.up, Div(o.height, F(2)))
        halfD == VScale(o.forward, Div(o.depth, F(2)))
    IN  CASE k = 1 -> RectangleObstacle(Ref(o.ref.id, 1), o.width, o.height, o.side, o.up,
                                        o.forward, VAdd(o.position, halfD), "outside")
          [] k = 2 -> RectangleObstacle(Ref(o.ref.id, 2), o.width, o.height, o.side, o.up,
                                        VNeg(o.forward), VSub(o.position, halfD), "outside")
          [] k = 3 -> RectangleObstacle(Ref(o.ref.id, 3), o.depth, o.height, o.forward, o.up,
                                        o.side, VAdd(o.position, halfW), "outside")
          [] k = 4 -> RectangleObstacle(Ref(o.ref.id, 4), o.depth, o.height, o.forward, o.up,
                                        VNeg(o.side), VSub(o.position, halfW), "outside")
          [] k = 5 -> RectangleObstacle(Ref(o.ref.id, 5), o.width, o.depth, o.side, o.forward,
                                        o.up, VAdd(o.position, halfH), "outside")
          [] k = 6 -> RectangleObstacle(Ref(o.ref.id, 6), o.width, o.depth, o.side, o.forward,
                                        VNeg(o.up), VSub(o.position, halfH), "outside")

\* the vehicle is outside the box on the side of face k and travels
\* perpendicular to that face, toward it
AimedSquarelyAt(face) ==
    /\ vehicle.forward = VNeg(face.forward)
    /\ Gt(dot(VSub(vehicle.position, face.position), face.forward), Zero)

\* C7: the box query returns the group-scan result over its six outward-facing
\* faces; for a vehicle outside the box travelling perpendicular to a face
\* toward it, the flag, distance, surface point, surface normal and steer hint
\* are those of a single RectangleObstacle with that face's dimensions,
\* orientation and position.
C7_BoxIsScanOfFaces ==
    (ret.op = "find" /\ LastQueried.kind = "box") =>
        /\ Visible(pi) = Visible(FreshScan([k \in 1..6 |-> OutwardFace(LastQueried, k)]))
        /\ \A k \in 1..6 :
              AimedSquarelyAt(OutwardFace(LastQueried, k)) =>
                  Visible(pi) = Visible(FreshFind(OutwardFace(LastQueried, k)))

\* a box met squarely on one of its faces
C7_Witness ==
    /\ ret.op = "find"
    /\ LastQueried.kind = "box"
    /\ pi.intersect
    /\ \E k \in 1..6 : AimedSquarelyAt(OutwardFace(LastQueried, k))

\* C8: a query is a function of the vehicle and the obstacles alone: whatever
\* the PathIntersection objects pi, nearest and next held before (nothing, a
\* stale hit, the result of an earlier query), a query of an obstacle or a scan
\* of the group leaves the flag and, with the flag set, the distance, surface
\* point, surface normal and steer hint that it leaves on fresh objects.
C8_ResultIndependentOfPriorContents ==
    /\ ret.op = "find" => Visible(pi) = Visible(FreshFind(LastQueried))
    /\ ret.op = "group" => Visible(nearest) = Visible(FreshScan(obstacles))

\* a scan has run on objects that held a stale hit, and found nothing
C8_Witness ==
    /\ ret.op = "group"
    /\ ~nearest.intersect
    /\ nearest.steerHint = StaleHit.steerHint
    /\ nearest.surfacePoint = StaleHit.surfacePoint

\* C9: every intersection returned has a distance >= 0.
C9_DistanceNonNegative ==
    (ret.op = "find" /\ pi.intersect) => Ge(pi.distance, Zero)

\* C10: the obstacle that a returned intersection refers to is one the caller
\* supplied (the queried obstacle, a member of the scanned group) and is alive
\* after the call.
C10_ObstacleRefersToLiveSuppliedObstacle ==
    (ret.op \in {"find", "group"} /\ ret.pi.intersect) =>
        /\ ret.pi.obstacle \in {obstacles[i].ref : i \in 1..Len(obstacles)}
        /\ ret.pi.obstacle \notin destroyed

=============================================================================
